---- MODULE Spec2Model ----
(***************************************************************************)
(* EchoCast 2: the asynchronous job runner and status stream of            *)
(* src/server.py, driving the five-stage pipeline of                       *)
(* src/echocast/orchestrator.py.                                           *)
(*                                                                         *)
(* Threads of the program:                                                 *)
(*   - one request thread per POST /api/generate   (generate)              *)
(*   - one background thread per accepted job      (generate._run)         *)
(*   - one request thread per GET /api/status/<id> (status_stream and its  *)
(*     generator event_stream)                                             *)
(* Every action below is one atomic step of one of these threads; the      *)
(* steps are cut where another thread can observe the shared dictionaries  *)
(* _JOBS and _status_queues or a queue.                                    *)
(*                                                                         *)
(* Two functions of the pipeline are modelled on their own, each applied   *)
(* to inputs drawn from a bounded set: the budget enforcement of           *)
(* scriptwriter.write_script (SpecScript) and the extraction of a JSON     *)
(* array from a response text by orchestrator._extract_queries and         *)
(* scriptwriter._extract_json (SpecExtract).                               *)
(***************************************************************************)
EXTENDS Integers, Sequences, FiniteSets, TLC

\* ---------------------------------------------------------------- bounds
MaxJobs == 2          \* POST /api/generate requests
MaxRequests == 3      \* requests of both kinds together
MaxStreams == 2       \* GET /api/status requests
MaxWrites == 2        \* non-blank lines the pipelines print, all jobs together
MaxKeepalive == 1     \* keepalive events recorded per stream
\* queue.Queue(maxsize=500) of server.py:66, scaled down: the capacity only
\* matters through "full / not full".
maxsize == 2
MaxLines == 4         \* records of a dialogue handed to write_script
MaxTextLen == 4       \* characters of a record's text
MaxArrayLen == 2      \* items of the JSON array a response holds
\* config.py:35-36 are 8000 and 2400, scaled down: three full records fit
\* the script, and a record can be longer than the per-line limit.
MAX_SCRIPT_CHARS == 7
MAX_CHARS_PER_LINE == 3

JobIds == 1..MaxJobs
StreamIds == 1..MaxStreams

\* ------------------------------------------------------------- constants
None == "None"                          \* Python None
\* the sentinel "__DONE__" of server.py:81; the job and n fields only tag the
\* pipeline's lines, the program compares the text
DoneText == <<"_", "_", "D", "O", "N", "E", "_", "_">>
DONE == [text |-> DoneText, job |-> 0, n |-> 0]
IsDone(line) == line.text = DoneText
OutputName == "podcast.mp3"             \* produce(...).name
NumStages == 5

\* ------------------------------------------------------------- str.strip
IsSpace(c) == c \in {" ", "\n"}

RECURSIVE LStrip(_)
LStrip(s) == IF s # <<>> /\ IsSpace(Head(s)) THEN LStrip(Tail(s)) ELSE s

RECURSIVE RStrip(_)
RStrip(s) ==
    IF s # <<>> /\ IsSpace(s[Len(s)]) THEN RStrip(SubSeq(s, 1, Len(s) - 1)) ELSE s

Strip(s) == RStrip(LStrip(s))

\* request bodies of POST /api/generate: data.get("topic", "")
Topics == {<<>>, <<" ">>, <<"a">>, <<" ", "a">>}

\* arguments of sys.stdout.write: print(x) writes x and then "\n".  Every
\* print of the pipeline has a fixed prefix, so no text strips to the
\* sentinel.
Texts == {<<"\n">>, <<" ", "x", "\n">>, <<"x">>}

\* ------------------------------------------------------------- the state
VARIABLES
    JOBS,            \* _JOBS: job_id -> [status, result, error]
    status_queues,   \* _status_queues: job_id -> queue contents, head first
    reqpc,           \* position of a generate() request
    tpc,             \* position of the background thread _run of a job
    invoked,         \* stages of orchestrator.run called so far, in order
    exc,             \* message of the exception that left run(), or None
    written,         \* number of non-blank lines the pipelines have written
    spc,             \* position of a status_stream request
    sjob,            \* job_id a status_stream request was made for
    events,          \* SSE frames a status_stream response has yielded
    parsed,          \* what _extract_json returned to write_script
    dialogue,        \* write_script's local dialogue
    total_chars,     \* write_script's local total_chars
    wpc,             \* position of a write_script call
    raw,             \* the LLM response text handed to an extractor
    array,           \* the JSON array the response text was built around
    xfn,             \* the extractor called on raw
    xpc,             \* position of the extractor call
    xret             \* what the extractor returned

vars == <<JOBS, status_queues, reqpc, tpc, invoked, exc, written,
          spc, sjob, events,
          parsed, dialogue, total_chars, wpc, raw, array, xfn, xpc, xret>>

jobVars == <<JOBS, status_queues, reqpc, tpc, invoked, exc, written>>
streamVars == <<spc, sjob, events>>
scriptVars == <<parsed, dialogue, total_chars, wpc>>
extractVars == <<raw, array, xfn, xpc, xret>>
pureVars == <<scriptVars, extractVars>>
serverVars == <<jobVars, streamVars>>

\* server.py:23-24 and no request made yet
ServerInit ==
    /\ JOBS = <<>>
    /\ status_queues = <<>>
    /\ reqpc = [j \in JobIds |-> "none"]
    /\ tpc = [j \in JobIds |-> "none"]
    /\ invoked = [j \in JobIds |-> <<>>]
    /\ exc = [j \in JobIds |-> None]
    /\ written = 0
    /\ spc = [s \in StreamIds |-> "none"]
    /\ sjob = [s \in StreamIds |-> 0]
    /\ events = [s \in StreamIds |-> <<>>]

\* no call of write_script in progress
ScriptIdle ==
    /\ parsed = <<>>
    /\ dialogue = <<>>
    /\ total_chars = 0
    /\ wpc = "none"

\* no call of an extractor in progress
ExtractIdle ==
    /\ raw = <<>>
    /\ array = <<>>
    /\ xfn = "none"
    /\ xpc = "none"
    /\ xret = <<>>

Init == ServerInit /\ ScriptIdle /\ ExtractIdle

\* The requests the clients have made so far.  Request slots are
\* interchangeable, so they are taken in increasing order.
NumPosts == Cardinality({r \in JobIds : reqpc[r] # "none"})
NumGets == Cardinality({s \in StreamIds : spc[s] # "none"})
NewPost(r) == NumPosts + NumGets < MaxRequests /\ r = NumPosts + 1
NewGet(s) == NumPosts + NumGets < MaxRequests /\ s = NumGets + 1

\* d[k] = v for a Python dict d
DictSet(d, k, v) == [x \in DOMAIN d \cup {k} |-> IF x = k THEN v ELSE d[x]]

\* --------------------------------------------------------- queue.Queue
\* Queue.full(): 0 < maxsize <= qsize
Full(q) == Len(q) >= maxsize

\* put_nowait that makes room by dropping the oldest item
PutNowaitEvict(q, line) == IF Full(q) THEN Append(Tail(q), line) ELSE Append(q, line)

\* put_nowait of a queue.LifoQueue
PutNowaitLifo(q, line) == IF Full(q) THEN q ELSE <<line>> \o q

\* the body of the loop of _TeeWriter.write: q.put_nowait(line), queue.Full
\* swallowed
PutNowait(q, line) == IF Full(q) THEN q ELSE Append(q, line)

\* the line a write of job j pushes: text.strip(), tagged with the writing
\* job and the number of the line so that distinct writes are distinct lines
Line(j, n, text) == [text |-> Strip(text), job |-> j, n |-> n]

\* _TeeWriter.write(text): the loop over list(_status_queues.values()).
\* Each put_nowait is atomic and touches one queue; the loop is taken as one
\* step, which keeps the order of the lines within every queue.
TeeWrite(queues, line) ==
    IF line.text # <<>>
    THEN [k \in DOMAIN queues |-> PutNowait(queues[k], line)]
    ELSE queues

\* ------------------------------------------------- POST /api/generate
\* server.py:59-62, empty topic
GenerateReject(r, topic) ==
    /\ NewPost(r)
    /\ Strip(topic) = <<>>
    /\ reqpc' = [reqpc EXCEPT ![r] = "400"]
    /\ UNCHANGED <<JOBS, status_queues, tpc, invoked, exc, written>>
    /\ UNCHANGED streamVars
    /\ UNCHANGED pureVars

\* server.py:59-65: job_id = str(uuid.uuid4())[:8]; _JOBS[job_id] = {...}.
\* uuid4 is taken to draw a fresh identifier; identifiers are opaque, so
\* request j draws identifier j.
GenerateRegister(j, topic) ==
    /\ NewPost(j)
    /\ Strip(topic) # <<>>
    /\ j \notin DOMAIN JOBS
    /\ JOBS' = DictSet(JOBS, j, [status |-> "running", result |-> None, error |-> None])
    /\ reqpc' = [reqpc EXCEPT ![j] = "l66"]
    /\ UNCHANGED <<status_queues, tpc, invoked, exc, written>>
    /\ UNCHANGED streamVars
    /\ UNCHANGED pureVars

\* server.py:66-84: _status_queues[job_id] = Queue(maxsize); thread.start()
GenerateStart(j) ==
    /\ reqpc[j] = "l66"
    /\ status_queues' = DictSet(status_queues, j, <<>>)
    /\ tpc' = [tpc EXCEPT ![j] = "run"]
    /\ reqpc' = [reqpc EXCEPT ![j] = "l86"]
    /\ UNCHANGED <<JOBS, invoked, exc, written>>
    /\ UNCHANGED streamVars
    /\ UNCHANGED pureVars

\* generate() that joins the background thread before it returns
GenerateReturnJoin(j) ==
    /\ reqpc[j] = "l86"
    /\ tpc[j] = "exited"
    /\ reqpc' = [reqpc EXCEPT ![j] = "returned"]
    /\ UNCHANGED <<JOBS, status_queues, tpc, invoked, exc, written>>
    /\ UNCHANGED streamVars
    /\ UNCHANGED pureVars

\* server.py:86: return jsonify({"job_id": job_id}), 202
GenerateReturn(j) ==
    /\ reqpc[j] = "l86"
    /\ reqpc' = [reqpc EXCEPT ![j] = "returned"]
    /\ UNCHANGED <<JOBS, status_queues, tpc, invoked, exc, written>>
    /\ UNCHANGED streamVars
    /\ UNCHANGED pureVars

\* ------------------------------------------------- orchestrator.run
\* messages of the exceptions a stage call can raise
StageFailures(k) ==
    CASE k = 1 -> {"Could not extract search queries from LLM response."}
      [] k = 2 -> {"APIFY_API_TOKEN is not set.",
                   "Research stage returned no data."}
      [] k = 3 -> {"generate_content failed"}   \* whatever the Gemini call raises
      [] k = 4 -> {"Could not extract valid JSON dialogue from LLM response."}
      [] k = 5 -> {"No dialogue lines to produce."}

\* the stage run() calls next: the calls are consecutive statements
NextStage(j) == Len(invoked[j]) + 1

\* run() that logs a stage's exception and carries on with the next stage
RunStageSwallow(j, outcome) ==
    /\ tpc[j] = "run"
    /\ NextStage(j) <= NumStages
    /\ outcome \in {"ok"} \cup StageFailures(NextStage(j))
    /\ invoked' = [invoked EXCEPT ![j] = Append(@, NextStage(j))]
    /\ tpc' = [tpc EXCEPT ![j] = IF NextStage(j) = NumStages THEN "l72" ELSE "run"]
    /\ exc' = IF outcome = "ok" THEN exc ELSE [exc EXCEPT ![j] = outcome]
    /\ UNCHANGED <<JOBS, status_queues, reqpc, written>>
    /\ UNCHANGED streamVars
    /\ UNCHANGED pureVars

\* one stage call of run(), orchestrator.py:77-100: it returns, or it raises
\* (stage 2 returning [] raises at orchestrator.py:91) and the exception
\* leaves run()
RunStage(j, outcome) ==
    /\ tpc[j] = "run"
    /\ NextStage(j) <= NumStages
    /\ outcome \in {"ok"} \cup StageFailures(NextStage(j))
    /\ invoked' = [invoked EXCEPT ![j] = Append(@, NextStage(j))]
    /\ IF outcome = "ok"
       THEN /\ tpc' = [tpc EXCEPT ![j] =
                          IF NextStage(j) = NumStages THEN "l72" ELSE "run"]
            /\ exc' = exc
       ELSE /\ tpc' = [tpc EXCEPT ![j] = "l75"]
            /\ exc' = [exc EXCEPT ![j] = outcome]
    /\ UNCHANGED <<JOBS, status_queues, reqpc, written>>
    /\ UNCHANGED streamVars
    /\ UNCHANGED pureVars

\* a print of the pipeline while run() executes: _TeeWriter.write(text)
Write(j, text) ==
    /\ tpc[j] = "run"
    /\ written < MaxWrites
    /\ written' = IF Strip(text) # <<>> THEN written + 1 ELSE written
    /\ status_queues' = TeeWrite(status_queues, Line(j, written + 1, text))
    /\ UNCHANGED <<JOBS, reqpc, tpc, invoked, exc>>
    /\ UNCHANGED streamVars
    /\ UNCHANGED pureVars

\* ------------------------------------------------- generate._run
\* server.py:72
SetDone(j) ==
    /\ tpc[j] = "l72"
    /\ JOBS' = [JOBS EXCEPT ![j].status = "done"]
    /\ tpc' = [tpc EXCEPT ![j] = "l73"]
    /\ UNCHANGED <<status_queues, reqpc, invoked, exc, written>>
    /\ UNCHANGED streamVars
    /\ UNCHANGED pureVars

\* server.py:73
SetResult(j) ==
    /\ tpc[j] = "l73"
    /\ JOBS' = [JOBS EXCEPT ![j].result = OutputName]
    /\ tpc' = [tpc EXCEPT ![j] = "finally"]
    /\ UNCHANGED <<status_queues, reqpc, invoked, exc, written>>
    /\ UNCHANGED streamVars
    /\ UNCHANGED pureVars

\* an except clause that records the message and forgets the status
SetErrorForgetsStatus(j) ==
    /\ tpc[j] = "l75"
    /\ JOBS' = [JOBS EXCEPT ![j].error = exc[j]]
    /\ tpc' = [tpc EXCEPT ![j] = "l76"]
    /\ UNCHANGED <<status_queues, reqpc, invoked, exc, written>>
    /\ UNCHANGED streamVars
    /\ UNCHANGED pureVars

\* an except clause that swallows the exception: "except Exception: pass"
SetErrorSkipped(j) ==
    /\ tpc[j] = "l75"
    /\ tpc' = [tpc EXCEPT ![j] = "finally"]
    /\ UNCHANGED <<JOBS, status_queues, reqpc, invoked, exc, written>>
    /\ UNCHANGED streamVars
    /\ UNCHANGED pureVars

\* server.py:74-75
SetError(j) ==
    /\ tpc[j] = "l75"
    /\ JOBS' = [JOBS EXCEPT ![j].status = "error"]
    /\ tpc' = [tpc EXCEPT ![j] = "l76"]
    /\ UNCHANGED <<status_queues, reqpc, invoked, exc, written>>
    /\ UNCHANGED streamVars
    /\ UNCHANGED pureVars

\* server.py:76: _JOBS[job_id]["error"] = str(e)
SetErrorMessage(j) ==
    /\ tpc[j] = "l76"
    /\ JOBS' = [JOBS EXCEPT ![j].error = exc[j]]
    /\ tpc' = [tpc EXCEPT ![j] = "finally"]
    /\ UNCHANGED <<status_queues, reqpc, invoked, exc, written>>
    /\ UNCHANGED streamVars
    /\ UNCHANGED pureVars

\* Queue.put(item) with block=True and no timeout: waits while the queue is
\* full
CanPut(q) == ~Full(q)

\* server.py:77-81: q = _status_queues.get(job_id); q.put("__DONE__")
\* (a Queue object is always truthy, and the key is set before the thread
\* starts)
Finally(j) ==
    /\ tpc[j] = "finally"
    /\ CanPut(status_queues[j])
    /\ status_queues' = [status_queues EXCEPT ![j] = Append(@, DONE)]
    /\ tpc' = [tpc EXCEPT ![j] = "exited"]
    /\ UNCHANGED <<JOBS, reqpc, invoked, exc, written>>
    /\ UNCHANGED streamVars
    /\ UNCHANGED pureVars

\* ------------------------------------------------- GET /api/status/<id>
\* status_stream without the membership test of server.py:92
StatusStreamNoCheck(s, job_id) ==
    /\ NewGet(s)
    /\ sjob' = [sjob EXCEPT ![s] = job_id]
    /\ spc' = [spc EXCEPT ![s] = "open"]
    /\ UNCHANGED events
    /\ UNCHANGED jobVars
    /\ UNCHANGED pureVars

\* server.py:90-94 and 113: 404 for an unknown job, else the Response
\* around the not yet started generator
StatusStream(s, job_id) ==
    /\ NewGet(s)
    /\ sjob' = [sjob EXCEPT ![s] = job_id]
    /\ spc' = [spc EXCEPT ![s] = IF job_id \notin DOMAIN JOBS THEN "404" ELSE "open"]
    /\ UNCHANGED events
    /\ UNCHANGED jobVars
    /\ UNCHANGED pureVars

\* server.py:96-98: q = _status_queues.get(job_id); if not q: return
EventStreamStart(s) ==
    /\ spc[s] = "open"
    /\ spc' = [spc EXCEPT ![s] =
                  IF sjob[s] \in DOMAIN status_queues THEN "await" ELSE "ended"]
    /\ UNCHANGED <<sjob, events>>
    /\ UNCHANGED jobVars
    /\ UNCHANGED pureVars

LogEvent(line) == [type |-> "log", message |-> line]
KeepaliveEvent == [type |-> "keepalive"]
CompleteEvent(job) ==
    [type |-> "complete", status |-> job.status, result |-> job.result,
     error |-> job.error]

\* server.py:101 and 106-111: q.get returned an item
EventStreamGet(s) ==
    /\ spc[s] = "await"
    /\ status_queues[sjob[s]] # <<>>
    /\ LET line == Head(status_queues[sjob[s]]) IN
         /\ status_queues' = [status_queues EXCEPT ![sjob[s]] = Tail(@)]
         /\ IF IsDone(line)
            THEN /\ events' = [events EXCEPT ![s] = Append(@, CompleteEvent(JOBS[sjob[s]]))]
                 /\ spc' = [spc EXCEPT ![s] = "ended"]
            ELSE /\ events' = [events EXCEPT ![s] = Append(@, LogEvent(line))]
                 /\ spc' = spc
    /\ UNCHANGED sjob
    /\ UNCHANGED <<JOBS, reqpc, tpc, invoked, exc, written>>
    /\ UNCHANGED pureVars

NumKeepalives(s) ==
    Cardinality({i \in 1..Len(events[s]) : events[s][i].type = "keepalive"})

\* server.py:101-104: q.get timed out on an empty queue.  The stream goes on
\* yielding keepalives for as long as the queue stays empty; the first
\* MaxKeepalive of them are recorded.
EventStreamKeepalive(s) ==
    /\ spc[s] = "await"
    /\ status_queues[sjob[s]] = <<>>
    /\ events' = [events EXCEPT ![s] =
                     IF NumKeepalives(s) < MaxKeepalive
                     THEN Append(@, KeepaliveEvent) ELSE @]
    /\ UNCHANGED <<spc, sjob>>
    /\ UNCHANGED jobVars
    /\ UNCHANGED pureVars

\* ------------------------------------------------- the specification
Next ==
    \/ \E r \in JobIds, t \in Topics : GenerateReject(r, t)
    \/ \E j \in JobIds, t \in Topics : GenerateRegister(j, t)
    \/ \E j \in JobIds : GenerateStart(j)
    \/ \E j \in JobIds : GenerateReturn(j)
    \/ \E j \in JobIds, o \in {"ok"} \cup UNION {StageFailures(k) : k \in 1..NumStages} :
          RunStage(j, o)
    \/ \E j \in JobIds, t \in Texts : Write(j, t)
    \/ \E j \in JobIds : SetDone(j)
    \/ \E j \in JobIds : SetResult(j)
    \/ \E j \in JobIds : SetError(j)
    \/ \E j \in JobIds : SetErrorMessage(j)
    \/ \E j \in JobIds : Finally(j)
    \/ \E s \in StreamIds, j \in JobIds : StatusStream(s, j)
    \/ \E s \in StreamIds : EventStreamStart(s)
    \/ \E s \in StreamIds : EventStreamGet(s)
    \/ \E s \in StreamIds : EventStreamKeepalive(s)

Spec == Init /\ [][Next]_vars

\* The steps of a started background thread after run() has been left, and
\* the steps of a started response generator, are taken by threads of the
\* process, which the interpreter schedules fairly.  The clients' requests
\* and the pipeline stages (calls to external services) carry no such
\* guarantee.
ThreadStep(j) ==
    SetDone(j) \/ SetResult(j) \/ SetError(j) \/ SetErrorMessage(j) \/ Finally(j)

StreamStep(s) == EventStreamStart(s) \/ EventStreamGet(s) \/ EventStreamKeepalive(s)

FairSpec ==
    /\ Spec
    /\ \A j \in JobIds : WF_vars(ThreadStep(j))
    /\ \A s \in StreamIds : WF_vars(StreamStep(s))

\* ------------------------------------------------- scriptwriter.write_script
\* A dialogue record is a dict of the parsed JSON: the key "text" can be
\* absent.  The i-th character of a text is i, so a prefix of a text differs
\* from every other part of it.
Speakers == {"Host", "Guest"}
TextOf(n) == [i \in 1..n |-> i]
Records ==
    [speaker : Speakers, text : {TextOf(n) : n \in 0..MaxTextLen}]
        \cup {[speaker |-> "Host"]}
Dialogues == UNION {[1..n -> Records] : n \in 0..MaxLines}

\* line.get("text", "")
GetText(line) == IF "text" \in DOMAIN line THEN line.text ELSE <<>>

\* text[:n]
Slice(text, n) == SubSeq(text, 1, IF Len(text) < n THEN Len(text) ELSE n)

\* the loop of scriptwriter.py:90-99 from its i-th iteration on; it counts
\* the characters but leaves the text as it is
RECURSIVE TruncateLoopCountOnly(_, _, _)
TruncateLoopCountOnly(d, i, total) ==
    IF i > Len(d)
    THEN [dialogue |-> d, total_chars |-> total]
    ELSE LET line_len == Len(GetText(d[i]))
         IN  IF line_len > MAX_CHARS_PER_LINE
             THEN TruncateLoopCountOnly(d, i + 1,
                      (total + line_len) - line_len + MAX_CHARS_PER_LINE)
             ELSE TruncateLoopCountOnly(d, i + 1, total + line_len)

\* the loop of scriptwriter.py:90-99 from its i-th iteration on: the
\* dialogue, its records cut in place, and total_chars after the loop
RECURSIVE TruncateLoop(_, _, _)
TruncateLoop(d, i, total) ==
    IF i > Len(d)
    THEN [dialogue |-> d, total_chars |-> total]
    ELSE LET text == GetText(d[i])
             line_len == Len(text)
         IN  IF line_len > MAX_CHARS_PER_LINE
             THEN TruncateLoop(
                      [d EXCEPT ![i] =
                          [@ EXCEPT !.text = Slice(text, MAX_CHARS_PER_LINE)]],
                      i + 1,
                      (total + line_len) - line_len + MAX_CHARS_PER_LINE)
             ELSE TruncateLoop(d, i + 1, total + line_len)

\* the loop of scriptwriter.py:106-111 with continue in the place of break
RECURSIVE TrimLoopSkip(_, _, _, _)
TrimLoopSkip(d, i, running, trimmed) ==
    IF i > Len(d)
    THEN [raised |-> FALSE, trimmed |-> trimmed]
    ELSE IF "text" \notin DOMAIN d[i]
    THEN [raised |-> TRUE, trimmed |-> trimmed]
    ELSE LET line_len == Len(d[i].text)
         IN  IF running + line_len > MAX_SCRIPT_CHARS
             THEN TrimLoopSkip(d, i + 1, running, trimmed)
             ELSE TrimLoopSkip(d, i + 1, running + line_len,
                               Append(trimmed, d[i]))

\* the loop of scriptwriter.py:106-111 from its i-th iteration on:
\* line["text"] raises KeyError on a record without text, the loop is left
\* at the first record that does not fit
RECURSIVE TrimLoop(_, _, _, _)
TrimLoop(d, i, running, trimmed) ==
    IF i > Len(d)
    THEN [raised |-> FALSE, trimmed |-> trimmed]
    ELSE IF "text" \notin DOMAIN d[i]
    THEN [raised |-> TRUE, trimmed |-> trimmed]
    ELSE LET line_len == Len(d[i].text)
         IN  IF running + line_len > MAX_SCRIPT_CHARS
             THEN [raised |-> FALSE, trimmed |-> trimmed]
             ELSE TrimLoop(d, i + 1, running + line_len,
                           Append(trimmed, d[i]))

\* scriptwriter.py:89-99 that counts a long record as cut and does not cut it
TruncateLinesCountOnly ==
    /\ wpc = "l89"
    /\ LET r == TruncateLoopCountOnly(dialogue, 1, 0)
       IN  /\ dialogue' = r.dialogue
           /\ total_chars' = r.total_chars
    /\ wpc' = "l102"
    /\ UNCHANGED parsed
    /\ UNCHANGED <<serverVars, extractVars>>

\* scriptwriter.py:89-99: the per-line truncation
TruncateLines ==
    /\ wpc = "l89"
    /\ LET r == TruncateLoop(dialogue, 1, 0)
       IN  /\ dialogue' = r.dialogue
           /\ total_chars' = r.total_chars
    /\ wpc' = "l102"
    /\ UNCHANGED parsed
    /\ UNCHANGED <<serverVars, extractVars>>

\* scriptwriter.py:102-116 whose walk skips a record that does not fit
TrimScriptSkip ==
    /\ wpc = "l102"
    /\ IF total_chars > MAX_SCRIPT_CHARS
       THEN LET r == TrimLoopSkip(dialogue, 1, 0, <<>>)
            IN  IF r.raised
                THEN wpc' = "KeyError" /\ UNCHANGED dialogue
                ELSE wpc' = "returned" /\ dialogue' = r.trimmed
       ELSE wpc' = "returned" /\ UNCHANGED dialogue
    /\ UNCHANGED <<parsed, total_chars>>
    /\ UNCHANGED <<serverVars, extractVars>>

\* scriptwriter.py:102-116: the total-budget walk and the return
TrimScript ==
    /\ wpc = "l102"
    /\ IF total_chars > MAX_SCRIPT_CHARS
       THEN LET r == TrimLoop(dialogue, 1, 0, <<>>)
            IN  IF r.raised
                THEN wpc' = "KeyError" /\ UNCHANGED dialogue
                ELSE wpc' = "returned" /\ dialogue' = r.trimmed
       ELSE wpc' = "returned" /\ UNCHANGED dialogue
    /\ UNCHANGED <<parsed, total_chars>>
    /\ UNCHANGED <<serverVars, extractVars>>

\* write_script after _extract_json has returned a list of records
InitScript ==
    /\ ServerInit
    /\ ExtractIdle
    /\ parsed \in Dialogues
    /\ dialogue = parsed
    /\ total_chars = 0
    /\ wpc = "l89"

NextScript ==
    \/ TruncateLines
    \/ TrimScript

SpecScript == InitScript /\ [][NextScript]_vars

\* ------------------------------------------------- json.loads
\* A text is a sequence of characters.  A decoded JSON value is tagged with
\* its Python type: str and int carry their characters in s, list its items
\* and dict its key/value pairs, in insertion order, in items.
Str(chars) == [t |-> "str", s |-> chars, items |-> <<>>]
Num(digits) == [t |-> "num", s |-> digits, items |-> <<>>]
Arr(items) == [t |-> "arr", s |-> <<>>, items |-> items]
Obj(pairs) == [t |-> "obj", s |-> <<>>, items |-> pairs]
Pair(k, val) == [t |-> "pair", s |-> k, items |-> <<val>>]
NoValue == [t |-> "none", s |-> <<>>, items |-> <<>>]

Digits == {"1"}

\* the character at index p (from 1), or a mark past the end of the text
At(s, p) == IF p >= 1 /\ p <= Len(s) THEN s[p] ELSE "EOF"

\* json's WHITESPACE.match(s, p).end() and the regular expression's \s*
RECURSIVE SkipWs(_, _)
SkipWs(s, p) == IF IsSpace(At(s, p)) THEN SkipWs(s, p + 1) ELSE p

Fail == [ok |-> FALSE, val |-> NoValue, pos |-> 0]
Ok(val, pos) == [ok |-> TRUE, val |-> val, pos |-> pos]

\* the index of the quote that closes a string whose content starts at p;
\* 0 when the text ends first or a control character comes first
RECURSIVE StringEnd(_, _)
StringEnd(s, p) ==
    IF p > Len(s) \/ s[p] = "\n" THEN 0
    ELSE IF s[p] = "\"" THEN p
    ELSE StringEnd(s, p + 1)

\* py_scanstring for a string whose opening quote is at p
ScanString(s, p) ==
    LET e == StringEnd(s, p + 1)
    IN  IF e = 0 THEN Fail ELSE Ok(Str(SubSeq(s, p + 1, e - 1)), e + 1)

RECURSIVE DigitsEnd(_, _)
DigitsEnd(s, p) == IF At(s, p) \in Digits THEN DigitsEnd(s, p + 1) ELSE p

\* NUMBER_RE.match for an integer that starts at p
ScanNumber(s, p) ==
    LET e == DigitsEnd(s, p) IN Ok(Num(SubSeq(s, p, e - 1)), e)

\* dict[k] = val: a repeated key keeps its place and takes the new value
DictPut(pairs, k, val) ==
    IF \E i \in 1..Len(pairs) : pairs[i].s = k
    THEN [i \in 1..Len(pairs) |->
             IF pairs[i].s = k THEN Pair(k, val) ELSE pairs[i]]
    ELSE Append(pairs, Pair(k, val))

RECURSIVE ScanOnce(_, _)
RECURSIVE ScanItems(_, _, _)
RECURSIVE ScanPairs(_, _, _)

\* json.scanner scan_once at index p: the value and the index after it
ScanOnce(s, p) ==
    CASE At(s, p) = "\"" -> ScanString(s, p)
      [] At(s, p) = "[" ->
            LET q == SkipWs(s, p + 1)
            IN  IF At(s, q) = "]" THEN Ok(Arr(<<>>), q + 1)
                ELSE ScanItems(s, q, <<>>)
      [] At(s, p) = "{" ->
            LET q == SkipWs(s, p + 1)
            IN  IF At(s, q) = "}" THEN Ok(Obj(<<>>), q + 1)
                ELSE ScanPairs(s, q, <<>>)
      [] At(s, p) \in Digits -> ScanNumber(s, p)
      [] OTHER -> Fail

\* the loop of json.decoder JSONArray: a value is expected at p
ScanItems(s, p, items) ==
    LET r == ScanOnce(s, p)
        q == SkipWs(s, r.pos)
    IN  IF ~r.ok THEN Fail
        ELSE IF At(s, q) = "]" THEN Ok(Arr(Append(items, r.val)), q + 1)
        ELSE IF At(s, q) = ","
             THEN ScanItems(s, SkipWs(s, q + 1), Append(items, r.val))
        ELSE Fail

\* the loop of json.decoder JSONObject: a key is expected at p
ScanPairs(s, p, pairs) ==
    LET key == ScanString(s, p)
        c == SkipWs(s, key.pos)
        r == ScanOnce(s, SkipWs(s, c + 1))
        q == SkipWs(s, r.pos)
    IN  IF At(s, p) # "\"" \/ ~key.ok THEN Fail
        ELSE IF At(s, c) # ":" THEN Fail
        ELSE IF ~r.ok THEN Fail
        ELSE IF At(s, q) = "}"
             THEN Ok(Obj(DictPut(pairs, key.val.s, r.val)), q + 1)
        ELSE IF At(s, q) = ","
             THEN ScanPairs(s, SkipWs(s, q + 1),
                            DictPut(pairs, key.val.s, r.val))
        ELSE Fail

\* json.loads(s): ok is FALSE where it raises JSONDecodeError
Loads(s) ==
    LET r == ScanOnce(s, SkipWs(s, 1))
    IN  IF r.ok /\ SkipWs(s, r.pos) = Len(s) + 1 THEN r ELSE Fail

\* the compact JSON text of a value
RECURSIVE Dumps(_)
RECURSIVE DumpsItems(_, _)
RECURSIVE DumpsPairs(_, _)
Dumps(x) ==
    CASE x.t = "str" -> <<"\"">> \o x.s \o <<"\"">>
      [] x.t = "num" -> x.s
      [] x.t = "arr" -> <<"[">> \o DumpsItems(x.items, 1) \o <<"]">>
      [] x.t = "obj" -> <<"{">> \o DumpsPairs(x.items, 1) \o <<"}">>
DumpsItems(items, i) ==
    IF i > Len(items) THEN <<>>
    ELSE (IF i > 1 THEN <<",">> ELSE <<>>)
             \o Dumps(items[i]) \o DumpsItems(items, i + 1)
DumpsPairs(pairs, i) ==
    IF i > Len(pairs) THEN <<>>
    ELSE (IF i > 1 THEN <<",">> ELSE <<>>)
             \o <<"\"">> \o pairs[i].s \o <<"\"", ":">>
             \o Dumps(pairs[i].items[1]) \o DumpsPairs(pairs, i + 1)

\* repr(x) of a decoded value; no string of the model holds a quote or a
\* character that repr escapes
RECURSIVE Repr(_)
RECURSIVE ReprItems(_, _)
RECURSIVE ReprPairs(_, _)
Repr(x) ==
    CASE x.t = "str" -> <<"'">> \o x.s \o <<"'">>
      [] x.t = "num" -> x.s
      [] x.t = "arr" -> <<"[">> \o ReprItems(x.items, 1) \o <<"]">>
      [] x.t = "obj" -> <<"{">> \o ReprPairs(x.items, 1) \o <<"}">>
ReprItems(items, i) ==
    IF i > Len(items) THEN <<>>
    ELSE (IF i > 1 THEN <<",", " ">> ELSE <<>>)
             \o Repr(items[i]) \o ReprItems(items, i + 1)
ReprPairs(pairs, i) ==
    IF i > Len(pairs) THEN <<>>
    ELSE (IF i > 1 THEN <<",", " ">> ELSE <<>>)
             \o <<"'">> \o pairs[i].s \o <<"'", ":", " ">>
             \o Repr(pairs[i].items[1]) \o ReprPairs(pairs, i + 1)

\* str(q)
StrOf(q) == IF q.t = "str" THEN q ELSE Str(Repr(q))

\* ------------------------------------------------- re.search
NoMatch == [found |-> FALSE, group |-> <<>>]
Match(s, b, e) == [found |-> TRUE, group |-> SubSeq(s, b, e)]

\* the backtick character
Tick == "tick"

\* three backticks at index p
IsFence(s, p) == At(s, p) = Tick /\ At(s, p + 1) = Tick /\ At(s, p + 2) = Tick

\* the tag "json" at index p
IsTag(s, p) ==
    At(s, p) = "j" /\ At(s, p + 1) = "s" /\ At(s, p + 2) = "o" /\ At(s, p + 3) = "n"

\* .*?\]\s* and the closing fence from index e on: the index of the first "]" that only
\* whitespace separates from three backticks, or 0
RECURSIVE LazyEnd(_, _)
LazyEnd(s, e) ==
    IF e > Len(s) THEN 0
    ELSE IF s[e] = "]" /\ IsFence(s, SkipWs(s, e + 1)) THEN e
    ELSE LazyEnd(s, e + 1)

\* \s*(\[.*?\])\s* and the closing fence, at index q
FenceBody(s, q) ==
    LET b == SkipWs(s, q)
        e == LazyEnd(s, b + 1)
    IN  IF At(s, b) = "[" /\ e # 0 THEN Match(s, b, e) ELSE NoMatch

\* the whole fence pattern anchored at index p: the tag is taken
\* when the rest matches with it, and left where it does not
FenceAt(s, p) ==
    IF ~IsFence(s, p) THEN NoMatch
    ELSE IF IsTag(s, p + 3) /\ FenceBody(s, p + 7).found
    THEN FenceBody(s, p + 7)
    ELSE FenceBody(s, p + 3)

\* re.search of the fence pattern (orchestrator.py:46) in s from index p
\* on: group(1) of the leftmost match
RECURSIVE FenceSearch(_, _)
FenceSearch(s, p) ==
    IF p > Len(s) THEN NoMatch
    ELSE IF FenceAt(s, p).found THEN FenceAt(s, p)
    ELSE FenceSearch(s, p + 1)

\* the index of the first c in s from index p on, or 0
RECURSIVE Find(_, _, _)
Find(s, c, p) ==
    IF p > Len(s) THEN 0 ELSE IF s[p] = c THEN p ELSE Find(s, c, p + 1)

\* the index of the last c in s up to index p, or 0
RECURSIVE RFind(_, _, _)
RFind(s, c, p) ==
    IF p < 1 THEN 0 ELSE IF s[p] = c THEN p ELSE RFind(s, c, p - 1)

\* a search for \[.*?\]: from the first "[" to the first "]" after it
BracketSearchLazy(s) ==
    LET b == Find(s, "[", 1)
        e == Find(s, "]", b + 1)
    IN  IF b # 0 /\ e # 0 THEN Match(s, b, e) ELSE NoMatch

\* re.search(r"\[.*\]", s, re.DOTALL): group(0), from the first "[" to the
\* last "]" after it
BracketSearch(s) ==
    LET b == Find(s, "[", 1)
        e == RFind(s, "]", Len(s))
    IN  IF b # 0 /\ e > b THEN Match(s, b, e) ELSE NoMatch

\* ------------------------------------------------- the extractors
\* [str(q) for q in data]
StrAll(data) == Arr([i \in 1..Len(data.items) |-> StrOf(data.items[i])])

\* orchestrator._extract_queries(raw): the line it is left at and what it
\* returns there
extract_queries(s) ==
    LET data == Loads(s)
        fence_match == FenceSearch(s, 1)
        bracket_match == BracketSearch(s)
    IN  IF data.ok /\ data.val.t = "arr"
        THEN [line |-> "l41", ret |-> StrAll(data.val)]
        ELSE IF fence_match.found /\ Loads(fence_match.group).ok
        THEN [line |-> "l49", ret |-> Loads(fence_match.group).val]
        ELSE IF bracket_match.found /\ Loads(bracket_match.group).ok
        THEN [line |-> "l57", ret |-> Loads(bracket_match.group).val]
        ELSE [line |-> "l61", ret |-> NoValue]

\* scriptwriter._extract_json(raw): the line it is left at and what it
\* returns there
extract_json(s) ==
    LET data == Loads(s)
        fence_match == FenceSearch(s, 1)
        bracket_match == BracketSearch(s)
    IN  IF data.ok /\ data.val.t = "arr"
        THEN [line |-> "l48", ret |-> data.val]
        ELSE IF fence_match.found /\ Loads(fence_match.group).ok
        THEN [line |-> "l56", ret |-> Loads(fence_match.group).val]
        ELSE IF bracket_match.found /\ Loads(bracket_match.group).ok
        THEN [line |-> "l64", ret |-> Loads(bracket_match.group).val]
        ELSE [line |-> "l68", ret |-> NoValue]

\* the lines where an extractor raises ValueError
Raises == {"l61", "l68"}

\* the arrays a response is built around
Backticks == <<Tick, Tick, Tick>>
Elems ==
    { Str(<<"a">>), Str(<<"]">>),
      Str(Backticks \o <<"[", "1", "]">> \o Backticks),
      Num(<<"1">>),
      Arr(<<Str(<<"a">>)>>),
      Obj(<<Pair(<<"a">>, Str(<<"a">>))>>) }
Arrays == {Arr(items) : items \in UNION {[1..n -> Elems] : n \in 0..MaxArrayLen}}

\* the text before and after the array
Prose ==
    { <<>>, <<"\n">>, <<"a", " ">>, <<"\"">>, <<"1">>, <<Tick>>,
      <<"[">>, <<"]">>, <<"[", "1", "]", " ">>, <<" ", "a", "]">>,
      Backticks, Backticks \o <<"[", "]">> \o Backticks }

\* the fence around the array: none, bare, tagged
Fences ==
    { [open |-> <<>>, close |-> <<>>],
      [open |-> Backticks, close |-> Backticks],
      [open |-> Backticks \o <<"j", "s", "o", "n", "\n">>,
       close |-> <<"\n">> \o Backticks] }

\* orchestrator.py:81 calls _extract_queries on the response
ExtractQueries ==
    /\ xpc = "call"
    /\ xfn' = "_extract_queries"
    /\ xpc' = extract_queries(raw).line
    /\ xret' = extract_queries(raw).ret
    /\ UNCHANGED <<raw, array>>
    /\ UNCHANGED <<serverVars, scriptVars>>

\* scriptwriter.py:86 calls _extract_json on the response
ExtractJson ==
    /\ xpc = "call"
    /\ xfn' = "_extract_json"
    /\ xpc' = extract_json(raw).line
    /\ xret' = extract_json(raw).ret
    /\ UNCHANGED <<raw, array>>
    /\ UNCHANGED <<serverVars, scriptVars>>

\* a response that holds a JSON array, before an extractor is called on it
InitExtract ==
    /\ ServerInit
    /\ ScriptIdle
    /\ array \in Arrays
    /\ \E pre \in Prose, post \in Prose, f \in Fences :
           raw = pre \o f.open \o Dumps(array) \o f.close \o post
    /\ xfn = "none"
    /\ xpc = "call"
    /\ xret = NoValue

NextExtract ==
    \/ ExtractQueries
    \/ ExtractJson

SpecExtract == InitExtract /\ [][NextExtract]_vars

\* =================================================================== claims
Lines(q) == {q[i] : i \in {k \in 1..Len(q) : ~IsDone(q[k])}}
LogLines(s) ==
    {events[s][i].message : i \in {k \in 1..Len(events[s]) : events[s][k].type = "log"}}
CompleteAt(s) == {i \in 1..Len(events[s]) : events[s][i].type = "complete"}

\* a step pushes an item onto the channel of job j
Pushed(j) ==
    /\ j \in DOMAIN status_queues
    /\ Len(status_queues'[j]) = Len(status_queues[j]) + 1
PushedItem(j) == status_queues'[j][Len(status_queues'[j])]

\* C1: a line written by the pipeline of job A is found only in the channel
\* of job A and only among the log events of streams opened on job A.
CrossJobIsolation ==
    /\ \A j \in DOMAIN status_queues : \A l \in Lines(status_queues[j]) : l.job = j
    /\ \A s \in StreamIds : \A l \in LogLines(s) : l.job = sjob[s]

\* C2: on every channel the terminal marker is pushed once, by the closing
\* step of the job's own background thread, and once that thread has pushed
\* it nothing more is pushed onto the channel.
TerminalMarkerLast ==
    [][\A j \in DOMAIN status_queues :
          /\ (Pushed(j) /\ IsDone(PushedItem(j))) => (tpc[j] = "finally" /\ tpc'[j] = "exited")
          /\ tpc[j] = "exited" => ~Pushed(j)]_vars

\* C3: every stream opened on a known job whose background thread has
\* finished comes to its end having yielded exactly one complete event, as
\* its last event.
StreamCompleted(s) ==
    /\ spc[s] = "ended"
    /\ CompleteAt(s) = {Len(events[s])}
    /\ Len(events[s]) > 0
StreamCompletesOnce ==
    \A s \in StreamIds :
        (spc[s] \in {"open", "await"} /\ tpc[sjob[s]] = "exited") ~> StreamCompleted(s)

\* C5: once run() has been left, by return or by exception, the background
\* thread goes on to push the terminal marker and to exit.
PipelineLeft(j) == tpc[j] \in {"l72", "l75"}
ChannelAlwaysClosed ==
    \A j \in JobIds : PipelineLeft(j) ~> tpc[j] = "exited"

\* C4: a job's status only moves from running to done or to error, result
\* and error are never both set, result is set only with status done and
\* error only with status error.
JobRecordOK(job) ==
    /\ ~(job.result # None /\ job.error # None)
    /\ job.result # None => job.status = "done"
    /\ job.error # None => job.status = "error"
StatusStep(old, new) == new = old \/ (old = "running" /\ new \in {"done", "error"})
JobLifecycle ==
    [][\A j \in DOMAIN JOBS' :
          /\ JobRecordOK(JOBS'[j])
          /\ j \in DOMAIN JOBS => StatusStep(JOBS[j].status, JOBS'[j].status)]_vars
JobLifecycleWitness ==
    \E j, k \in DOMAIN JOBS :
        /\ JOBS[j].status = "done" /\ JOBS[j].result = OutputName
        /\ JOBS[k].status = "error" /\ JOBS[k].error # None

\* C6: a write of a non-blank line is always possible for a running
\* pipeline, and it leaves every full channel as it was and appends the line
\* to every other channel.
WrittenLine(q) == q[Len(q)]
WriteNeverBlocks ==
    /\ [](\A j \in JobIds, t \in Texts :
             (tpc[j] = "run" /\ written < MaxWrites) => ENABLED Write(j, t))
    /\ [][written' # written =>
            \A k \in DOMAIN status_queues :
                IF Full(status_queues[k])
                THEN status_queues'[k] = status_queues[k]
                ELSE /\ Len(status_queues'[k]) = Len(status_queues[k]) + 1
                     /\ SubSeq(status_queues'[k], 1, Len(status_queues[k])) = status_queues[k]
                     /\ WrittenLine(status_queues'[k]).n = written']_vars
\* no stream has read anything, a channel is full of older items, and a
\* later line has been written: it was dropped on that channel
WriteNeverBlocksWitness ==
    /\ NumGets = 0
    /\ written > 0
    /\ \E k \in DOMAIN status_queues :
          /\ Full(status_queues[k])
          /\ \A i \in 1..Len(status_queues[k]) : status_queues[k][i].n < written

\* C7: the log events of a stream carry the lines of a job in the order in
\* which the job wrote them, none of them twice.
IsLog(s, i) == events[s][i].type = "log"
StreamOrder ==
    \A s \in StreamIds : \A i, k \in 1..Len(events[s]) :
        (i < k /\ IsLog(s, i) /\ IsLog(s, k)
               /\ events[s][i].message.job = events[s][k].message.job)
            => events[s][i].message.n < events[s][k].message.n
StreamOrderWitness ==
    \E s \in StreamIds : \E i, k \in 1..Len(events[s]) :
        /\ i < k /\ IsLog(s, i) /\ IsLog(s, k)
        /\ events[s][i].message.job = sjob[s]
        /\ events[s][k].message.job = sjob[s]

\* C8: run() calls the stages 1, 2, 3, 4, 5 in this order, calls no stage
\* after one has failed, and the job of a failed run ends with status error
\* and the message of that failure.
Failed(j) == exc[j] # None
PipelineAbortsOnFailure ==
    /\ [](\A j \in JobIds :
             /\ Len(invoked[j]) <= NumStages
             /\ \A i \in 1..Len(invoked[j]) : invoked[j][i] = i
             /\ Failed(j) => exc[j] \in StageFailures(Len(invoked[j]))
             /\ (Failed(j) /\ tpc[j] \in {"finally", "exited"}) =>
                    (JOBS[j].status = "error" /\ JOBS[j].error = exc[j]))
    /\ [][\A j \in JobIds : Failed(j) => invoked'[j] = invoked[j]]_vars
PipelineAbortsOnFailureWitness ==
    \E j \in JobIds :
        /\ tpc[j] = "exited"
        /\ invoked[j] = <<1, 2, 3>>
        /\ JOBS[j].status = "error"
        /\ JOBS[j].error \in StageFailures(3)

\* C9: the job's outcome is recorded before the channel is closed, and a
\* complete event carries status done or error and the job's recorded
\* status, result and error.
CompleteCarriesOutcome ==
    /\ \A j \in JobIds : tpc[j] = "exited" => JOBS[j].status \in {"done", "error"}
    /\ \A s \in StreamIds : \A i \in CompleteAt(s) :
          /\ events[s][i].status \in {"done", "error"}
          /\ events[s][i].status = JOBS[sjob[s]].status
          /\ events[s][i].result = JOBS[sjob[s]].result
          /\ events[s][i].error = JOBS[sjob[s]].error
CompleteCarriesOutcomeWitness ==
    \E s \in StreamIds : \E i \in CompleteAt(s) :
        events[s][i].status = "error" /\ events[s][i].error # None

\* C10 as claimed: generate() returns without waiting for the pipeline, and
\* when it returns the job is registered with status running and its
\* channel exists.
Returns(j) == reqpc[j] = "l86" /\ reqpc'[j] = "returned"
SubmitReturnsRunning ==
    /\ [](\A j \in JobIds : reqpc[j] = "l86" => ENABLED GenerateReturn(j))
    /\ [][\A j \in JobIds : Returns(j) =>
            (/\ j \in DOMAIN JOBS /\ j \in DOMAIN status_queues
             /\ JOBS[j].status = "running")]_vars

\* C10 as amended: generate() returns without waiting for the pipeline; the
\* job is registered with status running and its channel exists when the
\* background thread is started, and when generate() returns the job is
\* registered, its channel exists, and its status is running unless run()
\* has already been left and the outcome recorded.
SubmitReturnsRegistered ==
    /\ [](\A j \in JobIds : reqpc[j] = "l86" => ENABLED GenerateReturn(j))
    /\ [][\A j \in JobIds :
            /\ (reqpc[j] = "l66" /\ reqpc'[j] = "l86") =>
                  (/\ j \in DOMAIN JOBS' /\ j \in DOMAIN status_queues'
                   /\ JOBS'[j].status = "running"
                   /\ tpc'[j] = "run" /\ invoked'[j] = <<>>)
            /\ Returns(j) =>
                  (/\ j \in DOMAIN JOBS' /\ j \in DOMAIN status_queues'
                   /\ JOBS'[j].status \in {"running", "done", "error"}
                   /\ tpc'[j] \in {"run", "l72", "l75"} => JOBS'[j].status = "running")]_vars
SubmitReturnsRegisteredWitness ==
    \E j \in JobIds :
        /\ reqpc[j] = "returned"
        /\ tpc[j] = "run" /\ invoked[j] = <<>>
        /\ JOBS[j].status = "running"

\* C11: a status request for an identifier no submission has drawn is
\* answered not-found: the request yields no event then or later, and it
\* leaves every job record and every channel as they were; an item only
\* leaves a channel into an event of a stream awaiting on that channel's job.
Requested(s) == spc[s] = "none" /\ spc'[s] # "none"
RECURSIVE TextChars(_, _)
TextChars(d, k) ==
    IF k = 0 THEN 0 ELSE TextChars(d, k - 1) + Len(GetText(d[k]))

\* C12: the script write_script returns holds no record whose text is longer
\* than the per-record limit, and the text lengths of its records sum to no
\* more than the total limit, whatever records it was given.
WithinBudget ==
    wpc = "returned" =>
        /\ \A i \in 1..Len(dialogue) :
               Len(GetText(dialogue[i])) <= MAX_CHARS_PER_LINE
        /\ TextChars(dialogue, Len(dialogue)) <= MAX_SCRIPT_CHARS

WithinBudgetWitness ==
    /\ wpc = "returned"
    /\ dialogue # <<>>
    /\ Len(dialogue) < Len(parsed)
    /\ \E i \in 1..Len(dialogue) :
           Len(GetText(parsed[i])) > MAX_CHARS_PER_LINE

\* the records of d, each text cut to the per-record limit
Truncated(d) ==
    [i \in 1..Len(d) |->
        IF "text" \in DOMAIN d[i]
        THEN [d[i] EXCEPT !.text = Slice(@, MAX_CHARS_PER_LINE)]
        ELSE d[i]]

\* C14: the walk over the total budget starts from the records all cut to
\* the per-record limit, and the script returned is the longest prefix of
\* these cut records, in their order, whose text lengths sum to no more than
\* the total limit: nothing after the first record that does not fit is
\* kept, and no kept record is cut further.
TruncateThenTrim ==
    /\ wpc = "l102" =>
           /\ dialogue = Truncated(parsed)
           /\ total_chars = TextChars(dialogue, Len(dialogue))
    /\ wpc = "returned" =>
           \E k \in 0..Len(parsed) :
               /\ dialogue = SubSeq(Truncated(parsed), 1, k)
               /\ TextChars(Truncated(parsed), k) <= MAX_SCRIPT_CHARS
               /\ k < Len(parsed) =>
                      TextChars(Truncated(parsed), k + 1) > MAX_SCRIPT_CHARS

TruncateThenTrimWitness ==
    /\ wpc = "returned"
    /\ dialogue # <<>>
    /\ dialogue # SubSeq(parsed, 1, Len(dialogue))
    /\ \E i \in (Len(dialogue) + 2)..Len(parsed) :
           /\ GetText(parsed[i]) # <<>>
           /\ TextChars(dialogue, Len(dialogue)) + Len(GetText(parsed[i]))
                  <= MAX_SCRIPT_CHARS

\* ---- extraction of the JSON array of a response, under SpecExtract
\* the number of characters c in s
Count(s, c) == Cardinality({i \in 1..Len(s) : s[i] = c})

\* the text around the array holds no square bracket
ProseHasNoBracket ==
    /\ Count(raw, "[") = Count(Dumps(array), "[")
    /\ Count(raw, "]") = Count(Dumps(array), "]")

\* three backticks somewhere in s
HasFence(s) == \E p \in 1..Len(s) : IsFence(s, p)

\* C13 as it is stated: whatever the prose around a well-formed JSON array,
\* fenced or not, each extractor returns exactly that array.
ExtractsExactly ==
    xpc \notin {"none", "call"} => (xpc \notin Raises /\ xret = array)

\* C13: when the prose around the array holds no square bracket and the
\* array's text holds no triple backtick, fenced or not, each extractor
\* returns, and returns exactly the array; save that the query extractor,
\* given the array alone, returns its items each converted with str().
ExtractsFromPlainProse ==
    (/\ xpc \notin {"none", "call"}
     /\ ProseHasNoBracket
     /\ ~HasFence(Dumps(array))) =>
        /\ xpc \notin Raises
        /\ xpc # "l41" => xret = array
        /\ xpc = "l41" =>
               /\ xret.t = "arr"
               /\ Len(xret.items) = Len(array.items)
               /\ \A i \in 1..Len(array.items) :
                      xret.items[i] = IF array.items[i].t = "str"
                                      THEN array.items[i]
                                      ELSE Str(Repr(array.items[i]))

ExtractsFromPlainProseWitness ==
    /\ xpc = "l56"
    /\ ProseHasNoBracket
    /\ ~HasFence(Dumps(array))
    /\ raw[1] = "a"
    /\ raw[Len(raw)] = " "
    /\ \E i \in 1..Len(array.items) : array.items[i].t = "arr"
    /\ xret = array
====
